---- MODULE Spec2Model ----
(***************************************************************************)
(* The two Python client SDKs of the Git Memory MCP Server.                 *)
(*                                                                         *)
(*   variant 1  git_memory_mcp_sdk: Auth (auth.py), API (api.py) and the    *)
(*              MCP_SDK facade (sdk.py); the token is fetched lazily.       *)
(*   variant 2  mcp_sdk.McpSdk: one object, login() writes the bearer       *)
(*              header into the session's default headers.                  *)
(*                                                                         *)
(* The remote server is the environment: every operation draws the HTTP     *)
(* response (or transport error) of each request it issues from a small     *)
(* set.  Each operation records the exchanges of the call it just made      *)
(* (log), the token before the call (pre_token) and how it ended (result).  *)
(***************************************************************************)
EXTENDS Naturals, Sequences, FiniteSets

VARIABLES
    username,        \* Auth.username                      (auth.py:6)
    password,        \* Auth.password                      (auth.py:7)
    token,           \* Auth.token                         (auth.py:8)
    op,              \* variant 1: the operation called last, with its arguments
    pre_token,       \* variant 1: Auth.token when that operation was called
    log,             \* variant 1: the HTTP exchanges of that operation, in order
    result,          \* variant 1: how that operation ended (return value or exception)
    n_login,         \* variant 1: POST /auth/login requests issued since construction
    session_headers, \* McpSdk.session.headers             (mcp_sdk/__init__.py:6)
    granted,         \* variant 2: <<accessToken>> of the most recent login() that returned
    op2,             \* variant 2: the operation called last
    pre_headers,     \* variant 2: session headers when that operation was called
    log2,            \* variant 2: the HTTP exchange of that operation
    result2          \* variant 2: how that operation ended

vars1 == <<username, password, token, op, pre_token, log, result, n_login>>
vars2 == <<session_headers, granted, op2, pre_headers, log2, result2>>
vars == <<vars1, vars2>>

(***************************************************************************)
(* Bounds.                                                                 *)
(***************************************************************************)
\* login requests a variant-1 client may issue before the model stops it
MaxLoginRequests == 3

(***************************************************************************)
(* Python values: None, str, dict (JSON object), list (JSON array).         *)
(***************************************************************************)
PyNone == [kind |-> "none"]
PyStr(s) == [kind |-> "str", s |-> s]
PyDict(d) == [kind |-> "dict", d |-> d]
PyList == [kind |-> "list"]
EmptyDict == [k \in {} |-> PyNone]

\* Python truthiness, as tested by `if token:` and `not self.username`
Truthy(v) ==
    CASE v.kind = "none" -> FALSE
      [] v.kind = "str" -> v.s # ""
      [] v.kind = "dict" -> DOMAIN v.d # {}
      [] v.kind = "list" -> FALSE

\* str(v), as interpolated by an f-string
Str(v) ==
    CASE v.kind = "none" -> "None"
      [] v.kind = "str" -> v.s
      [] v.kind = "dict" -> "{}"
      [] v.kind = "list" -> "[]"

\* dict.get(key): the value, or None when the key is missing
DictGet(v, key) == IF key \in DOMAIN v.d THEN v.d[key] ELSE PyNone

\* dict[key] is defined only for keys of the dict (KeyError otherwise)
HasKey(v, key) == key \in DOMAIN v.d

(***************************************************************************)
(* The server: response bodies and responses.                              *)
(***************************************************************************)
BaseUrl == "https://mcp.example"

\* body texts the /auth/login endpoint may answer a variant-1 client with
LoginTexts ==
    { "", "[]", "{}",
      "{\"token\":\"abc\"}", "{\"token\":\"xyz\"}", "{\"token\":\"\"}" }

\* body texts the /auth/login endpoint may answer a variant-2 client with
LoginTexts2 ==
    { "", "[]", "{}", "{\"token\":\"abc\"}",
      "{\"accessToken\":\"abc\"}", "{\"accessToken\":\"xyz\"}",
      "{\"accessToken\":null}" }

\* body texts a domain endpoint may answer with
DomainTexts == { "", "[]", "{\"id\":\"1\"}" }

\* the body of an error answer
ErrorText == "{\"error\":\"denied\"}"

\* Response.json(): whether the body text decodes, and what it decodes to
IsJson(text) == text # ""
JsonValue(text) ==
    CASE text = "[]" -> PyList
      [] text = "{}" -> PyDict(EmptyDict)
      [] text = "{\"token\":\"abc\"}" -> PyDict([token |-> PyStr("abc")])
      [] text = "{\"token\":\"xyz\"}" -> PyDict([token |-> PyStr("xyz")])
      [] text = "{\"token\":\"\"}" -> PyDict([token |-> PyStr("")])
      [] text = "{\"accessToken\":\"abc\"}" -> PyDict([accessToken |-> PyStr("abc")])
      [] text = "{\"accessToken\":\"xyz\"}" -> PyDict([accessToken |-> PyStr("xyz")])
      [] text = "{\"accessToken\":null}" -> PyDict([accessToken |-> PyNone])
      [] text = "{\"id\":\"1\"}" -> PyDict([id |-> PyStr("1")])
      [] text = ErrorText -> PyDict([error |-> PyStr("denied")])

\* a request that never got a response (connection refused, timeout, ...)
TransportError == [kind |-> "error"]
Http(status, text) == [kind |-> "http", status |-> status, text |-> text]

\* The answers drawn: a transport error; 200 with each body text; a 3xx that
\* requests does not follow (300 Multiple Choices) with one of the texts; and
\* error statuses.
Responses(texts, text300, errors) ==
    {TransportError}
        \cup {Http(200, t) : t \in texts}
        \cup {Http(300, text300)}
        \cup {Http(s, ErrorText) : s \in errors}

LoginResponses == Responses(LoginTexts, "{\"token\":\"abc\"}", {401, 500})
LoginResponses2 == Responses(LoginTexts2, "{\"accessToken\":\"abc\"}", {401, 500})
DomainResponses == Responses(DomainTexts, "{\"id\":\"1\"}", {401, 404})

\* Response.raise_for_status(): raises HTTPError for 4xx and 5xx
RaiseForStatus(resp) == resp.status >= 400 /\ resp.status < 600

(***************************************************************************)
(* Requests, headers, results.                                             *)
(***************************************************************************)
NoHeaders == [k \in {} |-> ""]
JsonContent == [k \in {"Content-Type"} |-> "application/json"]

\* dict.update / requests' merge of per-request headers over session headers
Merge(base, over) ==
    [k \in DOMAIN base \cup DOMAIN over |->
        IF k \in DOMAIN over THEN over[k] ELSE base[k]]

Bearer(tok) == [k \in {"Authorization"} |-> "Bearer " \o Str(tok)]

NoData == PyNone

HttpRequest(method, url, json, headers) ==
    [method |-> method, url |-> url, json |-> json, headers |-> headers]

Exchange(req, resp) == [req |-> req, resp |-> resp]

Return(v) == [kind |-> "return", value |-> v, exc |-> ""]
Raise(e) == [kind |-> "raise", value |-> PyNone, exc |-> e]

(***************************************************************************)
(* Variant 1: Auth (auth.py).  An outcome is the token afterwards, the      *)
(* exchanges made, and the exception raised ("" when none).                 *)
(***************************************************************************)
Outcome(tok, exchanges, exc) == [token |-> tok, log |-> exchanges, exc |-> exc]

LoginUrl == BaseUrl \o "/auth/login"

\* requests.post(f'{base_url}/auth/login', json={'username': ..., 'password': ...})
LoginRequest(user, pass) ==
    HttpRequest("POST", LoginUrl,
                PyDict([username |-> user, password |-> pass]), JsonContent)

\* login() with the credentials test written with `and`: one of the two suffices
login_any_credential(user, pass, tok, resp, caught) ==
    IF ~Truthy(user) /\ ~Truthy(pass)
    THEN Outcome(tok, <<>>, "")
    ELSE LET exchanges == <<Exchange(LoginRequest(user, pass), resp)>> IN
         IF resp.kind = "error" \/ RaiseForStatus(resp)
         THEN Outcome(tok, exchanges, "ConnectionError")
         ELSE IF ~IsJson(resp.text)
         THEN Outcome(tok, exchanges,
                      IF caught THEN "ConnectionError" ELSE "ValueError")
         ELSE IF JsonValue(resp.text).kind # "dict"
         THEN Outcome(tok, exchanges, "AttributeError")
         ELSE Outcome(DictGet(JsonValue(resp.text), "token"), exchanges, "")

\* login() that drops the cached token when the request fails
login_clears_on_failure(user, pass, tok, resp, caught) ==
    IF ~Truthy(user) \/ ~Truthy(pass)
    THEN Outcome(tok, <<>>, "")
    ELSE LET exchanges == <<Exchange(LoginRequest(user, pass), resp)>> IN
         IF resp.kind = "error" \/ RaiseForStatus(resp)
         THEN Outcome(PyNone, exchanges, "ConnectionError")
         ELSE IF ~IsJson(resp.text)
         THEN Outcome(tok, exchanges,
                      IF caught THEN "ConnectionError" ELSE "ValueError")
         ELSE IF JsonValue(resp.text).kind # "dict"
         THEN Outcome(tok, exchanges, "AttributeError")
         ELSE Outcome(DictGet(JsonValue(resp.text), "token"), exchanges, "")

\* login() that prints the failure and does not raise
login_swallows_failure(user, pass, tok, resp, caught) ==
    IF ~Truthy(user) \/ ~Truthy(pass)
    THEN Outcome(tok, <<>>, "")
    ELSE LET exchanges == <<Exchange(LoginRequest(user, pass), resp)>> IN
         IF resp.kind = "error" \/ RaiseForStatus(resp)
         THEN Outcome(tok, exchanges, "")
         ELSE IF ~IsJson(resp.text)
         THEN Outcome(tok, exchanges, IF caught THEN "" ELSE "ValueError")
         ELSE IF JsonValue(resp.text).kind # "dict"
         THEN Outcome(tok, exchanges, "AttributeError")
         ELSE Outcome(DictGet(JsonValue(resp.text), "token"), exchanges, "")

\* Auth.login().  resp is the server's answer to the login request; caught says
\* whether the installed requests raises its JSON decode error as a
\* RequestException (2.27 and later) or as a plain ValueError (earlier).
login(user, pass, tok, resp, caught) ==
    IF ~Truthy(user) \/ ~Truthy(pass)
    THEN Outcome(tok, <<>>, "")
    ELSE LET exchanges == <<Exchange(LoginRequest(user, pass), resp)>> IN
         IF resp.kind = "error"
         THEN Outcome(tok, exchanges, "ConnectionError")
         ELSE IF RaiseForStatus(resp)
         THEN Outcome(tok, exchanges, "ConnectionError")
         ELSE IF ~IsJson(resp.text)
         THEN Outcome(tok, exchanges,
                      IF caught THEN "ConnectionError" ELSE "ValueError")
         ELSE IF JsonValue(resp.text).kind # "dict"
         THEN Outcome(tok, exchanges, "AttributeError")
         ELSE Outcome(DictGet(JsonValue(resp.text), "token"), exchanges, "")

\* get_token() that logs in on every call
get_token_always_login(user, pass, tok, resp, caught) ==
    login(user, pass, tok, resp, caught)

\* Auth.get_token(): login first when no token is cached, then the token
get_token(user, pass, tok, resp, caught) ==
    IF ~Truthy(tok)
    THEN login(user, pass, tok, resp, caught)
    ELSE Outcome(tok, <<>>, "")

(***************************************************************************)
(* Variant 1: API (api.py).  A call's outcome also carries its result.      *)
(***************************************************************************)
CallOutcome(tok, exchanges, res) == [token |-> tok, log |-> exchanges, result |-> res]

\* API.__init__: the session's default headers
client_headers == JsonContent

\* _get_headers without the test of the token
_get_headers_unconditional(tok) == Bearer(tok)

\* API._get_headers, given the token get_token() returned
_get_headers(tok) == IF Truthy(tok) THEN Bearer(tok) ELSE NoHeaders

\* the response handling without raise_for_status()
Respond_without_raise(resp) ==
    IF resp.kind = "error" THEN Raise("RequestException")
    ELSE IF ~IsJson(resp.text) THEN Raise("JSONDecodeError")
    ELSE Return(JsonValue(resp.text))

\* response.raise_for_status(); return response.json()
Respond(resp) ==
    IF resp.kind = "error" THEN Raise("RequestException")
    ELSE IF RaiseForStatus(resp) THEN Raise("HTTPError")
    ELSE IF ~IsJson(resp.text) THEN Raise("JSONDecodeError")
    ELSE Return(JsonValue(resp.text))

\* a request that drops the cached token when the endpoint answers 401
request_invalidates_on_401(method, endpoint, data, user, pass, tok, lresp, dresp, caught) ==
    LET auth == get_token(user, pass, tok, lresp, caught) IN
    IF auth.exc # ""
    THEN CallOutcome(auth.token, auth.log, Raise(auth.exc))
    ELSE LET req == HttpRequest(method, BaseUrl \o endpoint, data,
                                Merge(client_headers, _get_headers(auth.token)))
         IN  CallOutcome(IF dresp.kind = "http" /\ dresp.status = 401
                         THEN PyNone ELSE auth.token,
                         Append(auth.log, Exchange(req, dresp)),
                         Respond(dresp))

\* the common body of API.get, API.post, API.put and API.delete
request(method, endpoint, data, user, pass, tok, lresp, dresp, caught) ==
    LET auth == get_token(user, pass, tok, lresp, caught) IN
    IF auth.exc # ""
    THEN CallOutcome(auth.token, auth.log, Raise(auth.exc))
    ELSE LET req == HttpRequest(method, BaseUrl \o endpoint, data,
                                Merge(client_headers, _get_headers(auth.token)))
         IN  CallOutcome(auth.token,
                         Append(auth.log, Exchange(req, dresp)),
                         Respond(dresp))

get(endpoint, user, pass, tok, lresp, dresp, caught) ==
    request("GET", endpoint, NoData, user, pass, tok, lresp, dresp, caught)

post(endpoint, data, user, pass, tok, lresp, dresp, caught) ==
    request("POST", endpoint, data, user, pass, tok, lresp, dresp, caught)

put(endpoint, data, user, pass, tok, lresp, dresp, caught) ==
    request("PUT", endpoint, data, user, pass, tok, lresp, dresp, caught)

delete(endpoint, user, pass, tok, lresp, dresp, caught) ==
    request("DELETE", endpoint, NoData, user, pass, tok, lresp, dresp, caught)

(***************************************************************************)
(* Variant 1: the state machine of one client.                             *)
(***************************************************************************)
Usernames == {PyNone, PyStr(""), PyStr("alice")}
Passwords == {PyNone, PyStr(""), PyStr("secret")}
PlanIds == {PyStr("pro"), PyStr("free")}
Endpoints == {"/api/custom"}
Payloads == {NoData, PyDict([planId |-> PyStr("pro")])}

Op(name, endpoint, arg) == [name |-> name, endpoint |-> endpoint, arg |-> arg]

Range(seq) == {seq[i] : i \in DOMAIN seq}

IsLoginExchange(x) == x.req.url = LoginUrl
LoginCount(exchanges) ==
    Cardinality({i \in DOMAIN exchanges : IsLoginExchange(exchanges[i])})

\* the state after a call that ended with outcome out
Finish(o, out) ==
    /\ n_login + LoginCount(out.log) <= MaxLoginRequests
    /\ op' = o
    /\ pre_token' = token
    /\ token' = out.token
    /\ log' = out.log
    /\ result' = out.result
    /\ n_login' = n_login + LoginCount(out.log)
    /\ UNCHANGED <<username, password, vars2>>

\* a call of an Auth method: how it ended, from the Auth outcome
AuthResult(out, value) ==
    CallOutcome(out.token, out.log,
                IF out.exc # "" THEN Raise(out.exc) ELSE Return(value))

\* What the server may answer during one call: a request that is not issued
\* has no answer.  Whether a request is issued is read off the code itself, run
\* against a server that cannot be reached; the decode-error flag is drawn only
\* where a body fails to decode.
NoResponse == [kind |-> "none"]
LoginAnswers(issued) == IF issued THEN LoginResponses ELSE {NoResponse}
DomainAnswers(issued) == IF issued THEN DomainResponses ELSE {NoResponse}
Decoders(resp) ==
    IF resp.kind = "http" /\ ~RaiseForStatus(resp) /\ ~IsJson(resp.text)
    THEN BOOLEAN ELSE {TRUE}

\* the answers to a direct login()
LoginScripts ==
    UNION { { [login |-> l, caught |-> c] : c \in Decoders(l) } :
            l \in LoginAnswers(
                     login(username, password, token, TransportError, TRUE).log
                         # <<>>) }

\* the answers to a call that starts with get_token()
TokenScripts ==
    UNION { { [login |-> l, caught |-> c] : c \in Decoders(l) } :
            l \in LoginAnswers(
                     get_token(username, password, token, TransportError, TRUE).log
                         # <<>>) }

\* the answers to an API call: those of get_token(), then the domain endpoint's
ApiScripts ==
    UNION { { [login |-> t.login, caught |-> t.caught, domain |-> d] :
              d \in DomainAnswers(
                       \E x \in Range(request("GET", "", NoData, username, password,
                                              token, t.login, TransportError,
                                              t.caught).log) :
                           ~IsLoginExchange(x)) } :
            t \in TokenScripts }

\* sdk.auth.login()
Login ==
    \E s \in LoginScripts :
        LET out == login(username, password, token, s.login, s.caught) IN
        Finish(Op("login", "", PyNone), AuthResult(out, PyNone))

\* sdk.auth.get_token()
GetToken ==
    \E s \in TokenScripts :
        LET out == get_token(username, password, token, s.login, s.caught) IN
        Finish(Op("get_token", "", PyNone), AuthResult(out, out.token))

\* sdk.api.get(endpoint)
ApiGet ==
    \E e \in Endpoints, s \in ApiScripts :
        Finish(Op("api.get", e, PyNone),
               get(e, username, password, token, s.login, s.domain, s.caught))

\* sdk.api.post(endpoint, data)
ApiPost ==
    \E e \in Endpoints, d \in Payloads, s \in ApiScripts :
        Finish(Op("api.post", e, d),
               post(e, d, username, password, token, s.login, s.domain, s.caught))

\* sdk.api.put(endpoint, data)
ApiPut ==
    \E e \in Endpoints, d \in Payloads, s \in ApiScripts :
        Finish(Op("api.put", e, d),
               put(e, d, username, password, token, s.login, s.domain, s.caught))

\* sdk.api.delete(endpoint)
ApiDelete ==
    \E e \in Endpoints, s \in ApiScripts :
        Finish(Op("api.delete", e, PyNone),
               delete(e, username, password, token, s.login, s.domain, s.caught))

\* MCP_SDK.get_subscription_plans
get_subscription_plans ==
    \E s \in ApiScripts :
        Finish(Op("get_subscription_plans", "", PyNone),
               get("/subscriptions/plans",
                   username, password, token, s.login, s.domain, s.caught))

\* MCP_SDK.get_current_subscription
get_current_subscription ==
    \E s \in ApiScripts :
        Finish(Op("get_current_subscription", "", PyNone),
               get("/subscriptions/current",
                   username, password, token, s.login, s.domain, s.caught))

\* create_subscription sending the plan under the key plan_id
create_subscription_snake_case ==
    \E plan_id \in PlanIds, s \in ApiScripts :
        Finish(Op("create_subscription", "", plan_id),
               post("/subscriptions/create", PyDict([plan_id |-> plan_id]),
                    username, password, token, s.login, s.domain, s.caught))

\* MCP_SDK.create_subscription(plan_id)
create_subscription ==
    \E plan_id \in PlanIds, s \in ApiScripts :
        Finish(Op("create_subscription", "", plan_id),
               post("/subscriptions/create", PyDict([planId |-> plan_id]),
                    username, password, token, s.login, s.domain, s.caught))

\* MCP_SDK.cancel_subscription
cancel_subscription ==
    \E s \in ApiScripts :
        Finish(Op("cancel_subscription", "", PyNone),
               post("/subscriptions/cancel", NoData,
                    username, password, token, s.login, s.domain, s.caught))

\* MCP_SDK.get_invoices
get_invoices ==
    \E s \in ApiScripts :
        Finish(Op("get_invoices", "", PyNone),
               get("/payments/invoices",
                   username, password, token, s.login, s.domain, s.caught))

\* MCP_SDK.get_payment_history
get_payment_history ==
    \E s \in ApiScripts :
        Finish(Op("get_payment_history", "", PyNone),
               get("/payments/history",
                   username, password, token, s.login, s.domain, s.caught))

\* MCP_SDK.get_marketplace_servers
get_marketplace_servers ==
    \E s \in ApiScripts :
        Finish(Op("get_marketplace_servers", "", PyNone),
               get("/community-marketplace/servers",
                   username, password, token, s.login, s.domain, s.caught))

\* MCP_SDK.get_professional_services
get_professional_services ==
    \E s \in ApiScripts :
        Finish(Op("get_professional_services", "", PyNone),
               get("/api/professional-services",
                   username, password, token, s.login, s.domain, s.caught))

(***************************************************************************)
(* Variant 2: McpSdk (mcp_sdk/__init__.py).  An outcome is the session      *)
(* headers afterwards, the exchange made and the result.                    *)
(***************************************************************************)
Outcome2(headers, exchanges, res) ==
    [headers |-> headers, log |-> exchanges, result |-> res]

\* McpSdk.login reading the token with data.get('accessToken')
McpSdk_login_with_get(headers, user, pass, resp) ==
    LET req == HttpRequest("POST", LoginUrl,
                           PyDict([username |-> user, password |-> pass]),
                           Merge(headers, JsonContent))
        exchanges == <<Exchange(req, resp)>>
    IN  IF resp.kind = "error"
        THEN Outcome2(headers, exchanges, Raise("RequestException"))
        ELSE IF RaiseForStatus(resp)
        THEN Outcome2(headers, exchanges, Raise("HTTPError"))
        ELSE IF ~IsJson(resp.text)
        THEN Outcome2(headers, exchanges, Raise("JSONDecodeError"))
        ELSE LET data == JsonValue(resp.text) IN
             IF data.kind # "dict"
             THEN Outcome2(headers, exchanges, Raise("TypeError"))
             ELSE Outcome2(Merge(headers, Bearer(DictGet(data, "accessToken"))),
                           exchanges, Return(data))

\* McpSdk.login(username, password)
McpSdk_login(headers, user, pass, resp) ==
    LET req == HttpRequest("POST", LoginUrl,
                           PyDict([username |-> user, password |-> pass]),
                           Merge(headers, JsonContent))
        exchanges == <<Exchange(req, resp)>>
    IN  IF resp.kind = "error"
        THEN Outcome2(headers, exchanges, Raise("RequestException"))
        ELSE IF RaiseForStatus(resp)
        THEN Outcome2(headers, exchanges, Raise("HTTPError"))
        ELSE IF ~IsJson(resp.text)
        THEN Outcome2(headers, exchanges, Raise("JSONDecodeError"))
        ELSE LET data == JsonValue(resp.text) IN
             IF data.kind # "dict"
             THEN Outcome2(headers, exchanges, Raise("TypeError"))
             ELSE IF ~HasKey(data, "accessToken")
             THEN Outcome2(headers, exchanges, Raise("KeyError"))
             ELSE Outcome2(Merge(headers, Bearer(data.d["accessToken"])),
                           exchanges, Return(data))

\* the common body of McpSdk.get_analytics, get_branding and get_plans
McpSdk_get(headers, path, resp) ==
    Outcome2(headers,
             <<Exchange(HttpRequest("GET", BaseUrl \o path, NoData, headers), resp)>>,
             Respond(resp))

Usernames2 == {PyStr("alice"), PyStr("bob")}
Passwords2 == {PyStr("secret")}

\* the accessToken in the data a login() has returned
Granted(res) == <<DictGet(res.value, "accessToken")>>

\* the state after a variant-2 call that ended with outcome out
Finish2(name, out) ==
    /\ op2' = name
    /\ pre_headers' = session_headers
    /\ session_headers' = out.headers
    /\ log2' = out.log
    /\ result2' = out.result
    /\ granted' = IF name = "login" /\ out.result.kind = "return"
                  THEN Granted(out.result) ELSE granted
    /\ UNCHANGED vars1

\* sdk.login(username, password)
login2 ==
    \E user \in Usernames2, pass \in Passwords2, resp \in LoginResponses2 :
        Finish2("login", McpSdk_login(session_headers, user, pass, resp))

\* sdk.get_analytics()
get_analytics ==
    \E resp \in DomainResponses :
        Finish2("get_analytics", McpSdk_get(session_headers, "/api/analytics", resp))

\* sdk.get_branding()
get_branding ==
    \E resp \in DomainResponses :
        Finish2("get_branding", McpSdk_get(session_headers, "/api/branding", resp))

\* sdk.get_plans()
get_plans ==
    \E resp \in DomainResponses :
        Finish2("get_plans", McpSdk_get(session_headers, "/portal/plans", resp))

\* MCP_SDK(base_url, username, password) and McpSdk(base_url), just constructed
Init ==
    /\ username \in Usernames
    /\ password \in Passwords
    /\ token = PyNone
    /\ op = Op("__init__", "", PyNone)
    /\ pre_token = PyNone
    /\ log = <<>>
    /\ result = Return(PyNone)
    /\ n_login = 0
    /\ session_headers = NoHeaders
    /\ granted = <<>>
    /\ op2 = "__init__"
    /\ pre_headers = NoHeaders
    /\ log2 = <<>>
    /\ result2 = Return(PyNone)

Next ==
    \/ Login
    \/ GetToken
    \/ ApiGet
    \/ ApiPost
    \/ ApiPut
    \/ ApiDelete
    \/ get_subscription_plans
    \/ get_current_subscription
    \/ create_subscription
    \/ cancel_subscription
    \/ get_invoices
    \/ get_payment_history
    \/ get_marketplace_servers
    \/ get_professional_services

Spec == Init /\ [][Next]_vars

Next2 ==
    \/ login2
    \/ get_analytics
    \/ get_branding
    \/ get_plans

SpecV2 == Init /\ [][Next2]_vars

(***************************************************************************)
(* Vocabulary of the properties.                                           *)
(***************************************************************************)
HasCredentials == Truthy(username) /\ Truthy(password)

IsApiOp(o) == o.name \notin {"__init__", "login", "get_token"}
IsFacadeOp(o) == IsApiOp(o) /\ o.name \notin {"api.get", "api.post", "api.put", "api.delete"}

HasAuthorization(headers) == "Authorization" \in DOMAIN headers
Carries(x, tok) ==
    /\ HasAuthorization(x.req.headers)
    /\ x.req.headers["Authorization"] = "Bearer " \o tok.s

DomainExchanges(exchanges) == {x \in Range(exchanges) : ~IsLoginExchange(x)}

\* The answer is an HTTP error status.  "Non-success" is read the way requests
\* reads it (Response.ok is false): 4xx and 5xx.
ErrorStatus(resp) == resp.kind = "http" /\ resp.status \in 400..599
\* the request failed: no answer at all, or an error status
Failed(resp) == resp.kind = "error" \/ ErrorStatus(resp)
\* the answer is a non-error status whose body is JSON text
JsonAnswer(resp) == resp.kind = "http" /\ ~ErrorStatus(resp) /\ resp.text # ""
\* the login answer grants the non-empty token tok
Grants(resp, tok) ==
    /\ JsonAnswer(resp)
    /\ resp.text \in {"{\"token\":\"abc\"}", "{\"token\":\"xyz\"}"}
    /\ tok = JsonValue(resp.text).d["token"]
\* the login answer is a JSON object without a token field
LacksToken(resp) == JsonAnswer(resp) /\ resp.text = "{}"

\* the call began with a login request, answered resp
LoggedIn(exchanges, resp) ==
    /\ exchanges # <<>>
    /\ IsLoginExchange(exchanges[1])
    /\ exchanges[1].resp = resp

(***************************************************************************)
(* C1.  A client with credentials whose login is answered with a non-empty  *)
(* token t: the facade/API call that logs in sends its domain request with  *)
(* Authorization: Bearer t and caches t; every facade/API call made while a *)
(* token is cached sends the same header, issues no login request (the      *)
(* count of login requests stays) and leaves the token as it is.            *)
(***************************************************************************)
C1_TokenFetchedOnceAndReused ==
    [][ (IsApiOp(op') /\ HasCredentials) =>
          /\ Truthy(token) =>
                /\ n_login' = n_login
                /\ token' = token
                /\ Len(log') = 1
                /\ ~IsLoginExchange(log'[1])
                /\ Carries(log'[1], token)
          /\ \A t \in {PyStr("abc"), PyStr("xyz")} :
                (~Truthy(token) /\ LoggedIn(log', log'[1].resp) /\ Grants(log'[1].resp, t)) =>
                    /\ n_login' = n_login + 1
                    /\ token' = t
                    /\ Len(log') = 2
                    /\ ~IsLoginExchange(log'[2])
                    /\ Carries(log'[2], t)
      ]_vars

\* the second call of a client: the token of the one login is reused
C1_Witness ==
    /\ IsApiOp(op) /\ HasCredentials
    /\ Truthy(pre_token) /\ token = pre_token
    /\ n_login = 1
    /\ Len(log) = 1 /\ Carries(log[1], token)

(***************************************************************************)
(* C2.  A client constructed without credentials never has a token, never   *)
(* issues a login request, get_token() returns None, and every request it   *)
(* sends is a domain request without an Authorization header.               *)
(***************************************************************************)
C2_NoCredentialsNoToken ==
    ~HasCredentials =>
        /\ token = PyNone
        /\ n_login = 0
        /\ op.name = "get_token" => result = Return(PyNone)
        /\ op.name = "login" => result = Return(PyNone)
        /\ \A x \in Range(log) :
              ~IsLoginExchange(x) /\ ~HasAuthorization(x.req.headers)
        /\ IsApiOp(op) => Len(log) = 1

C2_Witness ==
    /\ ~HasCredentials /\ Truthy(username)
    /\ op.name = "get_subscription_plans"
    /\ Len(log) = 1 /\ result.kind = "return"

(***************************************************************************)
(* C3.  Whenever a login request fails (transport error or error status),   *)
(* the call that issued it raises ConnectionError and the token is what it  *)
(* was before the call.                                                     *)
(***************************************************************************)
C3_FailedLoginKeepsToken ==
    \A resp \in LoginResponses :
        (LoggedIn(log, resp) /\ Failed(resp)) =>
            /\ result = Raise("ConnectionError")
            /\ token = pre_token
            /\ Len(log) = 1

\* a direct login() of a client that holds a token, answered 500
C3_Witness ==
    /\ op.name = "login"
    /\ Truthy(pre_token)
    /\ LoggedIn(log, Http(500, ErrorText))

(***************************************************************************)
(* C4.  The authentication state is monotonic in both variants: a step      *)
(* never takes a client that holds a non-empty token (variant 1) or an      *)
(* Authorization session header (variant 2) to one that does not.           *)
(***************************************************************************)
C4_Monotonic ==
    [][ /\ Truthy(token) => Truthy(token')
        /\ HasAuthorization(session_headers) => HasAuthorization(session_headers')
      ]_vars

\* The part of C4 that is about variant 2, and the part of variant 1 that is
\* about every operation but a direct login(): neither loses the bearer.
Variant2Monotonic ==
    [][HasAuthorization(session_headers) => HasAuthorization(session_headers')]_vars
Variant1MonotonicButLogin ==
    [][(Truthy(token) /\ op'.name # "login") => token' = token]_vars

(***************************************************************************)
(* C5.  Every facade method and API verb: when the domain endpoint answers  *)
(* with an error status the call raises HTTPError and returns no value;     *)
(* when it answers with a non-error status and a JSON body the call         *)
(* returns that body, parsed; a call never both returns a value and raises. *)
(***************************************************************************)
C5_ErrorStatusRaises ==
    IsApiOp(op) =>
        /\ \A x \in DomainExchanges(log) :
              /\ ErrorStatus(x.resp) =>
                    /\ result.kind = "raise"
                    /\ result.exc = "HTTPError"
                    /\ result.value = PyNone
              /\ JsonAnswer(x.resp) =>
                    /\ result.kind = "return"
                    /\ result.value = JsonValue(x.resp.text)
        /\ result.kind = "return" => result.exc = ""
        /\ result.kind = "raise" => result.exc # "" /\ result.value = PyNone

\* a facade method whose endpoint answered 404
C5_Witness ==
    /\ op.name = "get_invoices"
    /\ \E x \in DomainExchanges(log) : x.resp = Http(404, ErrorText)
    /\ result = Raise("HTTPError")

(***************************************************************************)
(* C6.  The facade's routes: the method, path and body each facade method  *)
(* sends, the number of domain requests a facade call issues, and the       *)
(* value it returns on success.                                             *)
(***************************************************************************)
Route(o) ==
    CASE o.name = "get_subscription_plans" ->
            [method |-> "GET", path |-> "/subscriptions/plans", json |-> NoData]
      [] o.name = "get_current_subscription" ->
            [method |-> "GET", path |-> "/subscriptions/current", json |-> NoData]
      [] o.name = "create_subscription" ->
            [method |-> "POST", path |-> "/subscriptions/create",
             json |-> PyDict([planId |-> o.arg])]
      [] o.name = "cancel_subscription" ->
            [method |-> "POST", path |-> "/subscriptions/cancel", json |-> NoData]
      [] o.name = "get_invoices" ->
            [method |-> "GET", path |-> "/payments/invoices", json |-> NoData]
      [] o.name = "get_payment_history" ->
            [method |-> "GET", path |-> "/payments/history", json |-> NoData]
      [] o.name = "get_marketplace_servers" ->
            [method |-> "GET", path |-> "/community-marketplace/servers", json |-> NoData]
      [] o.name = "get_professional_services" ->
            [method |-> "GET", path |-> "/api/professional-services", json |-> NoData]

OnRoute(o, x) ==
    /\ x.req.method = Route(o).method
    /\ x.req.url = BaseUrl \o Route(o).path
    /\ x.req.json = Route(o).json

RoutedAndReturned ==
    \A x \in DomainExchanges(log) :
        /\ OnRoute(op, x)
        /\ JsonAnswer(x.resp) => result = Return(JsonValue(x.resp.text))

\* the lazy login of this call raised
LoginRaised == result.kind = "raise" /\ log # <<>> /\ IsLoginExchange(log[Len(log)])

\* C6 as stated: every facade call issues exactly one domain request, on its
\* route, and returns the server's JSON on success
C6_ExactlyOneDomainRequest ==
    IsFacadeOp(op) =>
        /\ Cardinality(DomainExchanges(log)) = 1
        /\ Len(log) - LoginCount(log) = 1
        /\ RoutedAndReturned

\* C6 as amended: exactly one domain request unless the lazy login of the call
\* raised, and then none; the request issued is the route's, and on success the
\* server's JSON is returned unchanged.
C6_FacadeRoutes ==
    IsFacadeOp(op) =>
        /\ Len(log) - LoginCount(log) = (IF LoginRaised THEN 0 ELSE 1)
        /\ Cardinality(DomainExchanges(log)) = Len(log) - LoginCount(log)
        /\ RoutedAndReturned

\* create_subscription("pro") answered 200 with a JSON body
C6_Witness ==
    /\ op.name = "create_subscription" /\ op.arg = PyStr("pro")
    /\ \E x \in DomainExchanges(log) :
          /\ x.req.json = PyDict([planId |-> PyStr("pro")])
          /\ x.resp = Http(200, "{\"id\":\"1\"}")
    /\ result = Return(PyDict([id |-> PyStr("1")]))

(***************************************************************************)
(* C7.  Variant 2: before any login() has returned no request carries an    *)
(* Authorization header; afterwards the session, and every request sent,    *)
(* carries Authorization: Bearer <the accessToken the most recent login()   *)
(* that returned was given>; a login() that fails (error status, transport  *)
(* error, or a body without the accessToken field) raises and leaves the    *)
(* session headers as they were.                                            *)
(***************************************************************************)
IsGet2(name) == name \in {"get_analytics", "get_branding", "get_plans"}

C7_SessionBearer ==
    /\ granted = <<>> =>
          /\ ~HasAuthorization(session_headers)
          /\ \A x \in Range(log2) : ~HasAuthorization(x.req.headers)
    /\ granted # <<>> =>
          /\ HasAuthorization(session_headers)
          /\ session_headers["Authorization"] = "Bearer " \o Str(granted[1])
          /\ IsGet2(op2) =>
                \A x \in Range(log2) :
                    /\ HasAuthorization(x.req.headers)
                    /\ x.req.headers["Authorization"] = "Bearer " \o Str(granted[1])
    /\ op2 = "login" =>
          \A x \in Range(log2) :
              (\/ Failed(x.resp)
               \/ (JsonAnswer(x.resp) /\ x.resp.text \in {"{}", "{\"token\":\"abc\"}"}))
                  => result2.kind = "raise" /\ session_headers = pre_headers

\* a logged-in client whose second login() is answered without accessToken,
\* followed by nothing else: the header of the first login is still there
C7_Witness ==
    /\ op2 = "login"
    /\ result2 = Raise("KeyError")
    /\ granted = <<PyStr("xyz")>>
    /\ HasAuthorization(pre_headers)
    /\ session_headers = pre_headers

(***************************************************************************)
(* C8.  A client that holds a token and whose domain request is answered    *)
(* with 401 or another error status: the call raises HTTPError, issues no   *)
(* login request, sends the domain request once, and the token is unchanged.*)
(***************************************************************************)
C8_NoReauthentication ==
    (IsApiOp(op) /\ Truthy(pre_token)) =>
        \A x \in DomainExchanges(log) :
            ErrorStatus(x.resp) =>
                /\ result = Raise("HTTPError")
                /\ LoginCount(log) = 0
                /\ Len(log) = 1
                /\ token = pre_token
                /\ Carries(x, pre_token)

C8_Witness ==
    /\ IsApiOp(op) /\ Truthy(pre_token)
    /\ Len(log) = 1 /\ log[1].resp = Http(401, ErrorText)
    /\ result = Raise("HTTPError")
    /\ token = pre_token

(***************************************************************************)
(* C9.  Every domain request of the API wrapper carries an Authorization    *)
(* header exactly when a non-empty token is cached as it is sent, and the   *)
(* header is then Bearer and that token.  When the login succeeds with a    *)
(* body that has no token field, no token is cached, the domain request     *)
(* goes out without the header, and the next call logs in again.            *)
(***************************************************************************)
C9_HeaderIffToken ==
    IsApiOp(op) =>
        /\ \A x \in DomainExchanges(log) :
              /\ HasAuthorization(x.req.headers) <=> Truthy(token)
              /\ Truthy(token) => Carries(x, token)
        /\ \A resp \in LoginResponses :
              (LoggedIn(log, resp) /\ LacksToken(resp)) =>
                  /\ token = PyNone
                  /\ Len(log) = 2
                  /\ ~IsLoginExchange(log[2])
                  /\ ~HasAuthorization(log[2].req.headers)
        /\ (~Truthy(pre_token) /\ HasCredentials) =>
              log # <<>> /\ IsLoginExchange(log[1])

\* the call after a login that was answered 200 {}: it logs in again
C9_Witness ==
    /\ IsApiOp(op) /\ HasCredentials
    /\ n_login = 2
    /\ pre_token = PyNone
    /\ LoggedIn(log, Http(200, "{}"))
    /\ Len(log) = 2 /\ ~HasAuthorization(log[2].req.headers)

(***************************************************************************)
(* C10.  A facade/API call made with credentials and no token cached issues *)
(* the login request first and the domain request after it; if the login    *)
(* fails the call raises ConnectionError, no domain request is sent and the *)
(* client still has no token, so that the next call logs in again.          *)
(***************************************************************************)
C10_LoginBeforeDomain ==
    (IsApiOp(op) /\ HasCredentials /\ ~Truthy(pre_token)) =>
        /\ log # <<>>
        /\ IsLoginExchange(log[1])
        /\ \A i \in DOMAIN log : i > 1 => ~IsLoginExchange(log[i])
        /\ Failed(log[1].resp) =>
              /\ result = Raise("ConnectionError")
              /\ DomainExchanges(log) = {}
              /\ Len(log) = 1
              /\ token = pre_token
              /\ ~Truthy(token)

\* the second attempt of a client whose first login failed fails too
C10_Witness ==
    /\ IsApiOp(op) /\ HasCredentials
    /\ n_login = 2
    /\ ~Truthy(pre_token)
    /\ LoggedIn(log, TransportError)
    /\ result = Raise("ConnectionError")

====
